---- MODULE Spec2Model ----
(***************************************************************************)
(* Model of api/copy.py: the crawl / download / rewrite / package pipeline *)
(* of sse_generator, seen as the async generator it is.  One action is one *)
(* segment of code between two suspension points (a yield of an event or   *)
(* an await of the network); pc names the suspension point the generator   *)
(* is parked at.                                                           *)
(*                                                                         *)
(* URLs are small integers: RootUrl is web_url, 1..MaxAssets are the       *)
(* distinct absolute URLs the page and its stylesheets can refer to.       *)
(* UrlOf gives each its parsed form (urlparse) as token sequences, on      *)
(* which safe_filename_from_url computes as the code does.                 *)
(***************************************************************************)
EXTENDS Integers, Sequences, FiniteSets, TLC

\* ---------------------------------------------------------------- bounds
MaxAssets == 9      \* most distinct asset URLs a page (with its css) names
MaxCss == 2         \* most <link rel=stylesheet> elements on a page
MaxCssNew == 1      \* most new URLs one stylesheet text contributes
MaxCssPageAssets == 3 \* most asset URLs of a page that links stylesheets
MaxSize == 2        \* largest len(content) of a fetched asset
MaxClock == 3       \* ticks of the wall clock a pair of runs is followed for
MaxWrites == 2      \* files a run writes into its workspace while followed

\* ------------------------------------------------------------- constants

\* Variant: the ceiling set one too high.
CONCURRENT_DOWNLOADS_off_by_one == 8 + 1

CONCURRENT_DOWNLOADS == 8

QUERY_FINGERPRINT_LEN == 40

\* web_url after ensure_scheme
RootUrl == 0

\* the url field of an event that carries none
NoUrl == -1

\* ------------------------------------------------------ text and urlparse
\* A text is a sequence of tokens; a token is one character, except that the
\* literal "index.html" is kept as one token wherever it occurs.
Min(a, b) == IF a < b THEN a ELSE b

EndsWithSlash(t) == Len(t) > 0 /\ t[Len(t)] = "/"

RECURSIVE LStripSlash(_)
LStripSlash(t) ==
  IF t # <<>> /\ Head(t) = "/" THEN LStripSlash(Tail(t)) ELSE t

\* re.sub(r"[\\:*?\"<>|]", "_", filename)
ForbiddenChars == {"\\", ":", "*", "?", "\"", "<", ">", "|"}

SubForbidden(t) == [i \in 1..Len(t) |-> IF t[i] \in ForbiddenChars THEN "_" ELSE t[i]]

\* re.sub(r'[^0-9a-zA-Z]', '_', parsed.query)
AlnumChars == {"a", "b", "c", "h", "k", "v", "x", "1", "2"}

SubNonAlnum(t) == [i \in 1..Len(t) |-> IF t[i] \in AlnumChars THEN t[i] ELSE "_"]

\* netloc.replace(":", "_")
ReplaceColon(t) == [i \in 1..Len(t) |-> IF t[i] = ":" THEN "_" ELSE t[i]]

\* os.path.join(host, filename) for a filename that does not start with "/"
PathJoin(a, b) ==
  IF a = <<>> THEN b
  ELSE IF EndsWithSlash(a) THEN a \o b
  ELSE a \o <<"/">> \o b

safe_filename_from_url(url) ==
  LET path0 == IF url.path = <<>> THEN <<"/">> ELSE url.path
      path1 == IF EndsWithSlash(path0) THEN path0 \o <<"index.html">> ELSE path0
      fn0 == LStripSlash(path1)
      fn1 == IF fn0 = <<>> THEN <<"index.html">> ELSE fn0
      host == ReplaceColon(url.netloc)
      fn2 == SubForbidden(PathJoin(host, fn1))
  IN IF url.query # <<>>
       THEN fn2 \o <<"_">> \o
            SubSeq(SubNonAlnum(url.query), 1,
                        Min(Len(url.query), QUERY_FINGERPRINT_LEN))
       ELSE fn2

\* ------------------------------------------------------- urljoin and paths
Dot == <<".">>

DotDot == <<".", ".">>

\* t.split('/')
RECURSIVE SplitAcc(_, _, _)
SplitAcc(t, cur, acc) ==
  IF t = <<>> THEN Append(acc, cur)
  ELSE IF Head(t) = "/" THEN SplitAcc(Tail(t), <<>>, Append(acc, cur))
  ELSE SplitAcc(Tail(t), Append(cur, Head(t)), acc)

Split(t) == SplitAcc(t, <<>>, <<>>)

\* '/'.join(segs)
RECURSIVE JoinSlash(_)
JoinSlash(segs) ==
  IF segs = <<>> THEN <<>>
  ELSE IF Len(segs) = 1 THEN segs[1]
  ELSE segs[1] \o <<"/">> \o JoinSlash(Tail(segs))

DropLast(q) == SubSeq(q, 1, Len(q) - 1)

\* The loop of urljoin over the segments: '..' pops, '.' is skipped.
RECURSIVE ResolveSegs(_, _)
ResolveSegs(segs, acc) ==
  IF segs = <<>> THEN acc
  ELSE IF Head(segs) = DotDot
    THEN ResolveSegs(Tail(segs), IF acc = <<>> THEN acc ELSE DropLast(acc))
  ELSE IF Head(segs) = Dot THEN ResolveSegs(Tail(segs), acc)
  ELSE ResolveSegs(Tail(segs), Append(acc, Head(segs)))

\* segments[1:-1] = filter(None, segments[1:-1])
FilterMiddle(segs) ==
  IF Len(segs) < 3 THEN segs
  ELSE <<segs[1]>> \o SelectSeq(SubSeq(segs, 2, Len(segs) - 1), LAMBDA x : x # <<>>)
         \o <<segs[Len(segs)]>>

\* The path urljoin gives a reference with no scheme and no netloc; urlunparse
\* puts the '/' back in front of a path that lost it.
ResolvePath(bpath, path) ==
  LET bparts0 == Split(bpath)
      bparts == IF bparts0[Len(bparts0)] # <<>> THEN DropLast(bparts0) ELSE bparts0
      segments == IF Head(path) = "/" THEN Split(path)
                  ELSE FilterMiddle(bparts \o Split(path))
      resolved0 == ResolveSegs(segments, <<>>)
      resolved == IF segments[Len(segments)] \in {Dot, DotDot}
                    THEN Append(resolved0, <<>>) ELSE resolved0
      joined == JoinSlash(resolved)
  IN IF joined = <<>> THEN <<"/">>
     ELSE IF Head(joined) # "/" THEN <<"/">> \o joined
     ELSE joined

\* urljoin(base, ref) on parsed forms.  A reference that carries a netloc is
\* returned as it is, its path untouched.
urljoin(base, ref) ==
  LET scheme == IF ref.scheme = <<>> THEN base.scheme ELSE ref.scheme
  IN IF scheme # base.scheme THEN ref
     ELSE IF ref.netloc # <<>> THEN [ref EXCEPT !.scheme = scheme]
     ELSE IF ref.path = <<>>
       THEN [scheme |-> scheme, netloc |-> base.netloc, path |-> base.path,
             query |-> IF ref.query = <<>> THEN base.query ELSE ref.query,
             fragment |-> ref.fragment]
     ELSE [scheme |-> scheme, netloc |-> base.netloc,
           path |-> ResolvePath(base.path, ref.path),
           query |-> ref.query, fragment |-> ref.fragment]

\* Where the file system puts root / p: '..' climbs (up counts the levels
\* above root that remain), '.' and empty segments vanish.
RECURSIVE FsWalk(_, _, _)
FsWalk(segs, up, acc) ==
  IF segs = <<>> THEN [up |-> up, segs |-> acc]
  ELSE IF Head(segs) \in {<<>>, Dot} THEN FsWalk(Tail(segs), up, acc)
  ELSE IF Head(segs) = DotDot
    THEN IF acc = <<>> THEN FsWalk(Tail(segs), up + 1, acc)
         ELSE FsWalk(Tail(segs), up, DropLast(acc))
  ELSE FsWalk(Tail(segs), up, Append(acc, Head(segs)))

FsResolve(p) == FsWalk(Split(p), 0, <<>>)

\* The file root / p lies under root.
InsideRoot(p) == FsResolve(p).up = 0

\* os.path.relpath(file_path, root) of a file under root.
ArcName(p) == JoinSlash(FsResolve(p).segs)

\* ------------------------------------------------------------ the web site
Http == <<"h", "t", "t", "p">>

NoRef == [scheme |-> <<>>, netloc |-> <<>>, path |-> <<>>, query |-> <<>>,
          fragment |-> <<>>]

\* web_url, parsed: http://h/
WebUrl == [NoRef EXCEPT !.scheme = Http, !.netloc = <<"h">>, !.path = <<"/">>]

RECURSIVE Rep(_, _)
Rep(c, n) == IF n = 0 THEN <<>> ELSE <<c>> \o Rep(c, n - 1)

\* The reference, as written in the markup or stylesheet, whose resolution is
\* the URL with identity u: a relative one, a directory, an absolute one with
\* a port, one with a query, an absolute one with '..' in its path, a relative
\* one with '..', and plain root-relative ones.
RefOf(u) ==
  CASE u = 1 -> [NoRef EXCEPT !.path = Rep("a", 1)]
    [] u = 2 -> [NoRef EXCEPT !.path = <<"/">> \o Rep("a", 2) \o <<"/">>]
    [] u = 3 -> [NoRef EXCEPT !.scheme = Http, !.netloc = <<"h", ":", "8">>,
                              !.path = <<"/">> \o Rep("a", 3)]
    [] u = 4 -> [NoRef EXCEPT !.path = <<"/">> \o Rep("a", 4),
                              !.query = <<"v", "=", "1">>]
    [] u = 5 -> [NoRef EXCEPT !.scheme = Http, !.netloc = <<"h">>,
                              !.path = <<"/", ".", ".", "/", ".", ".", "/">> \o Rep("a", 5)]
    [] u = 6 -> [NoRef EXCEPT !.path = <<".", ".", "/">> \o Rep("a", 6)]
    [] OTHER -> [NoRef EXCEPT !.path = <<"/">> \o Rep("a", u)]

\* The parsed form of the URL with identity u: urljoin(web_url, v) of 90.
UrlOf(u) == IF u = RootUrl THEN WebUrl ELSE urljoin(WebUrl, RefOf(u))

LocalPath(u) == safe_filename_from_url(UrlOf(u))

\* rewrite_attr (269-275), and likewise the srcset and style passes: the new
\* value of an attribute whose value is val.
rewrite_attr(val) == safe_filename_from_url(urljoin(WebUrl, val))

\* len(r.content) of the resource at URL u when its fetch succeeds.
ContentLen(u) == u % (MaxSize + 1)

\* ---------------------------------------------------------------- events
Ev(k, d, u, n) == [k |-> k, d |-> d, u |-> u, n |-> n]

Status(d) == Ev("status", d, NoUrl, 0)

StatusUrl(d, u) == Ev("status", d, u, 0)

Error(d) == Ev("error", d, NoUrl, 0)

Meta(n) == Ev("meta", "", NoUrl, n)

Asset(u, n) == Ev("asset", "", u, n)

AssetError(u) == Ev("asset_error", "", u, 0)

Progress(n) == Ev("progress", "", NoUrl, n)

Done == Ev("done", "", NoUrl, 0)

NoResult == Ev("none", "", NoUrl, 0)

\* ----------------------------------------------------------------- state
VARIABLES
  probe,            \* inputs and result of one call of a pure function
  ws,               \* clock, /tmp and the runs sharing it (make_workspace)
  html,             \* resp.text of the root page: what it refers to
  pc,               \* suspension point sse_generator is parked at
  events,           \* the stream: every string yielded so far, in order
  workspace,        \* TRUE once make_workspace has created root
  asset_urls,       \* the set asset_urls
  css_links,        \* the list css_links
  css_i,            \* position of the css_url being fetched (1-based)
  css_texts,        \* keys of the dict css_texts: stylesheets that answered 200
  url_list,         \* list(asset_urls), one download_and_save generator each
  task,             \* per generator: where it is parked
  result,           \* per generator: the string its consume() returned
  sem,              \* sem._value, the free permits of the semaphore
  batch_i,          \* i of run_tasks_and_emit's for loop
  emit_k,           \* position in url_list of the last result yielded
  bytes_downloaded, \* the nonlocal counter
  downloaded_files, \* urls of the entries appended to downloaded_files
  index_html,       \* state of root/index.html
  info_json,        \* state of root/info.json
  manifest,         \* the info dict that write_json dumped
  archive           \* state and entries of the zip at zipped_fullpath

\* What the pipeline of one run never touches.
other == <<probe, ws>>

vars == <<other, html, pc, events, workspace, asset_urls, css_links, css_i, css_texts,
          url_list, task, result, sem, batch_i, emit_k, bytes_downloaded,
          downloaded_files, index_html, info_json, manifest, archive>>

NoManifest == [total_files_downloaded |-> -1, downloaded_bytes |-> -1]

NoArchive == [state |-> "none", entries |-> {}]

Emit(e) == events' = Append(events, e)

RECURSIVE SetToList(_)
SetToList(S) ==
  IF S = {} THEN <<>>
  ELSE LET m == CHOOSE x \in S : \A y \in S : x <= y
       IN <<m>> \o SetToList(S \ {m})

MaxOf(S) == IF S = {} THEN 0 ELSE CHOOSE x \in S : \A y \in S : y <= x

\* Files present under root, as paths relative to root (what os.walk finds).
WorkspaceFiles ==
  {ArcName(LocalPath(u)) : u \in {v \in downloaded_files : InsideRoot(LocalPath(v))}}
    \cup (IF index_html = "absent" THEN {} ELSE {<<"index.html">>})
    \cup (IF info_json = "absent" THEN {} ELSE {<<"i", "n", "f", "o", ".", "j", "s", "o", "n">>})

\* A page: nHtml distinct asset URLs (1..nHtml) referenced by the markup, of
\* which the first nCss are <link rel=stylesheet>; rootRef: some reference
\* resolves to web_url itself.
Pages ==
  {p \in [nHtml : 0..MaxAssets, nCss : 0..MaxCss, rootRef : BOOLEAN] :
     /\ p.nCss <= p.nHtml
     /\ p.nCss > 0 => p.nHtml <= MaxCssPageAssets}

NoPage == [nHtml |-> 0, nCss |-> 0, rootRef |-> FALSE]

NoProbe == [f |-> "none"]

\* The runs of sse_generator followed together: two requests being served.
Runs == {1, 2}

\* TMP_ROOT before any run: no run has started, no file is written.
NoWs == [clock |-> 0,
         run |-> [r \in Runs |-> [st |-> "idle", root |-> -1, n |-> 0]],
         files |-> {},
         removed |-> {}]

pipeline == <<html, pc, events, workspace, asset_urls, css_links, css_i, css_texts,
              url_list, task, result, sem, batch_i, emit_k, bytes_downloaded,
              downloaded_files, index_html, info_json, manifest, archive>>

PipelineInit ==
  /\ html = NoPage
  /\ pc = "start"
  /\ events = <<>>
  /\ workspace = FALSE
  /\ asset_urls = {}
  /\ css_links = <<>>
  /\ css_i = 0
  /\ css_texts = {}
  /\ url_list = <<>>
  /\ task = <<>>
  /\ result = <<>>
  /\ sem = 0
  /\ batch_i = 0
  /\ emit_k = 0
  /\ bytes_downloaded = 0
  /\ downloaded_files = {}
  /\ index_html = "absent"
  /\ info_json = "absent"
  /\ manifest = NoManifest
  /\ archive = NoArchive

Init ==
  /\ probe = NoProbe
  /\ ws = NoWs
  /\ PipelineInit

\* ------------------------------------------------------ root page (136-153)
\* ensure_scheme, make_workspace, then the first yield.
Start ==
  /\ pc = "start"
  /\ workspace' = TRUE
  /\ Emit(Status("fetching_html"))
  /\ pc' = "fetching_html"
  /\ UNCHANGED <<other, html, asset_urls, css_links, css_i, css_texts, url_list, task, result,
                 sem, batch_i, emit_k, bytes_downloaded, downloaded_files,
                 index_html, info_json, manifest, archive>>

\* make_workspace raises (rmtree or mkdir fails): nothing catches it.
StartFail ==
  /\ pc = "start"
  /\ pc' = "raised"
  /\ UNCHANGED <<other, html, events, workspace, asset_urls, css_links, css_i, css_texts,
                 url_list, task, result, sem, batch_i, emit_k,
                 bytes_downloaded, downloaded_files, index_html, info_json,
                 manifest, archive>>

\* client.get returns and raise_for_status passes: html = resp.text.
RootFetchOk ==
  /\ pc = "fetching_html"
  /\ \E p \in Pages : html' = p
  /\ Emit(Status("fetched_html"))
  /\ pc' = "fetched_html"
  /\ UNCHANGED <<other, workspace, asset_urls, css_links, css_i, css_texts,
                 url_list, task, result, sem, batch_i, emit_k,
                 bytes_downloaded, downloaded_files, index_html, info_json,
                 manifest, archive>>

\* Variant: the return at 153 is missing.
RootFetchFail_no_return ==
  /\ pc = "fetching_html"
  /\ Emit(Error("failed_fetch_html"))
  /\ pc' = "fetched_html"
  /\ UNCHANGED <<other, html, workspace, asset_urls, css_links, css_i, css_texts, url_list,
                 task, result, sem, batch_i, emit_k, bytes_downloaded,
                 downloaded_files, index_html, info_json, manifest, archive>>

\* client.get raises, or raise_for_status raises on a non-2xx status.
RootFetchFail ==
  /\ pc = "fetching_html"
  /\ Emit(Error("failed_fetch_html"))
  /\ pc' = "fatal"
  /\ UNCHANGED <<other, html, workspace, asset_urls, css_links, css_i, css_texts, url_list,
                 task, result, sem, batch_i, emit_k, bytes_downloaded,
                 downloaded_files, index_html, info_json, manifest, archive>>

\* ------------------------------------------------------ discovery (155-186)
Range(q) == {q[i] : i \in 1..Len(q)}

\* find_asset_urls(web_url, html) on page p
find_asset_urls(p) == (1..p.nHtml) \cup (IF p.rootRef THEN {RootUrl} ELSE {})

\* Variant: total_items is also announced at the head of the stylesheet loop.
CssLoopOrMeta_meta_in_loop(links, k, urls) ==
  IF k <= Len(links)
    THEN /\ Emit(Meta(Cardinality(urls) + 1))
         /\ asset_urls' = urls
         /\ css_i' = k
         /\ pc' = "fetching_css"
    ELSE LET final == (urls \cup Range(links)) \ {RootUrl}
         IN /\ asset_urls' = final
            /\ Emit(Meta(Cardinality(final) + 1))
            /\ css_i' = k
            /\ pc' = "meta"

\* Variant: web_url is not discarded from the asset set.
CssLoopOrMeta_no_discard(links, k, urls) ==
  IF k <= Len(links)
    THEN /\ Emit(StatusUrl("fetching_css", links[k]))
         /\ asset_urls' = urls
         /\ css_i' = k
         /\ pc' = "fetching_css"
    ELSE LET final == urls \cup Range(links)
         IN /\ asset_urls' = final
            /\ Emit(Meta(Cardinality(final) + 1))
            /\ css_i' = k
            /\ pc' = "meta"

\* The head of the stylesheet loop for the k-th css_url, or, past the last
\* one, lines 180-186: add the css links, discard web_url, yield meta.
CssLoopOrMeta(links, k, urls) ==
  IF k <= Len(links)
    THEN /\ Emit(StatusUrl("fetching_css", links[k]))
         /\ asset_urls' = urls
         /\ css_i' = k
         /\ pc' = "fetching_css"
    ELSE LET final == (urls \cup Range(links)) \ {RootUrl}
         IN /\ asset_urls' = final
            /\ Emit(Meta(Cardinality(final) + 1))
            /\ css_i' = k
            /\ pc' = "meta"

\* Lines 155-164 and the entry of the loop at 168.
Discover ==
  /\ pc = "fetched_html"
  /\ css_links' = [i \in 1..html.nCss |-> i]
  /\ CssLoopOrMeta(css_links', 1, find_asset_urls(html))
  /\ UNCHANGED <<other, html, css_texts, workspace, url_list, task, result,
                 sem, batch_i, emit_k, bytes_downloaded, downloaded_files,
                 index_html, info_json, manifest, archive>>

\* The stylesheet answers 200 and its text names e URLs not seen before, and
\* possibly web_url itself.
CssFetchOk ==
  /\ pc = "fetching_css"
  /\ \E e \in 0..MaxCssNew, root \in BOOLEAN :
       LET top == MaxOf(asset_urls \cup Range(css_links))
       IN /\ top + e <= MaxCssPageAssets
          /\ CssLoopOrMeta(css_links, css_i + 1,
                           asset_urls \cup ((top + 1)..(top + e))
                             \cup (IF root THEN {RootUrl} ELSE {}))
  /\ css_texts' = css_texts \cup {css_links[css_i]}
  /\ UNCHANGED <<other, html, workspace, css_links, url_list, task, result, sem,
                 batch_i, emit_k, bytes_downloaded, downloaded_files,
                 index_html, info_json, manifest, archive>>

\* Variant: break instead of continue, the remaining stylesheets are skipped.
CssFetchFail_break ==
  /\ pc = "fetching_css"
  /\ CssLoopOrMeta(css_links, Len(css_links) + 1, asset_urls)
  /\ UNCHANGED <<other, html, css_texts, workspace, css_links, url_list, task, result, sem,
                 batch_i, emit_k, bytes_downloaded, downloaded_files,
                 index_html, info_json, manifest, archive>>

\* client.get raises (except Exception: continue) or the status is not 200:
\* nothing is added and nothing is yielded for it.
CssFetchFail ==
  /\ pc = "fetching_css"
  /\ CssLoopOrMeta(css_links, css_i + 1, asset_urls)
  /\ UNCHANGED <<other, html, css_texts, workspace, css_links, url_list, task, result, sem,
                 batch_i, emit_k, bytes_downloaded, downloaded_files,
                 index_html, info_json, manifest, archive>>

\* ------------------------------------------------- download stage (188-260)
N == Len(url_list)

BatchFirst == batch_i + 1

BatchLast == Min(batch_i + CONCURRENT_DOWNLOADS, N)

Batch == BatchFirst..BatchLast

InFlight == Cardinality({j \in 1..N : task[j] = "fetching"})

\* Lines 188-241 when there is something to download: index.html is saved,
\* the generators are created and gather is awaited on the first batch.
BeginDownloads ==
  /\ pc = "meta"
  /\ asset_urls # {}
  /\ index_html' = "original"
  /\ url_list' = SetToList(asset_urls)
  /\ task' = [j \in 1..Cardinality(asset_urls) |-> "created"]
  /\ result' = [j \in 1..Cardinality(asset_urls) |-> NoResult]
  /\ sem' = CONCURRENT_DOWNLOADS
  /\ batch_i' = 0
  /\ pc' = "gather"
  /\ UNCHANGED <<other, html, events, workspace, asset_urls, css_links, css_i, css_texts,
                 emit_k, bytes_downloaded, downloaded_files, info_json,
                 manifest, archive>>

\* Lines 188-265 when asset_urls is empty: the for loop of run_tasks_and_emit
\* has no iteration and the next yield is rewriting_html.
NoDownloads ==
  /\ pc = "meta"
  /\ asset_urls = {}
  /\ index_html' = "original"
  /\ sem' = CONCURRENT_DOWNLOADS
  /\ Emit(Status("rewriting_html"))
  /\ pc' = "rewriting_html"
  /\ UNCHANGED <<other, html, workspace, asset_urls, css_links, css_i, css_texts, url_list,
                 task, result, batch_i, emit_k, bytes_downloaded,
                 downloaded_files, info_json, manifest, archive>>

\* main_html_path.write_text at 191 raises: it is outside every try.
IndexWriteFail ==
  /\ pc = "meta"
  /\ pc' = "raised"
  /\ UNCHANGED <<other, html, events, workspace, asset_urls, css_links, css_i, css_texts,
                 url_list, task, result, sem, batch_i, emit_k,
                 bytes_downloaded, downloaded_files, index_html, info_json,
                 manifest, archive>>

\* async with sem (203): Semaphore.acquire takes a permit when one is free
\* and otherwise parks the caller until a release.
Acquire(j) ==
  IF sem > 0
    THEN /\ sem' = sem - 1
         /\ task' = [task EXCEPT ![j] = "fetching"]
    ELSE /\ sem' = sem
         /\ task' = [task EXCEPT ![j] = "waiting"]

\* consume(g) of the j-th generator runs to its first suspension: 203-205.
\* The loop runs the tasks gather created in the order it created them.
TaskStart(j) ==
  /\ pc = "gather"
  /\ j \in Batch
  /\ task[j] = "created"
  /\ \A k \in Batch : k < j => task[k] # "created"
  /\ Acquire(j)
  /\ UNCHANGED <<other, html, pc, events, workspace, asset_urls, css_links, css_i, css_texts,
                 url_list, result, batch_i, emit_k, bytes_downloaded,
                 downloaded_files, index_html, info_json, manifest, archive>>

\* Variant: bytes_downloaded = len(content) in place of +=.
FetchOk_assigns(j) ==
  /\ pc = "gather"
  /\ j \in 1..N
  /\ task[j] = "fetching"
  /\ bytes_downloaded' = ContentLen(url_list[j])
  /\ downloaded_files' = downloaded_files \cup {url_list[j]}
  /\ result' = [result EXCEPT ![j] = Asset(url_list[j], ContentLen(url_list[j]))]
  /\ task' = [task EXCEPT ![j] = "yielded"]
  /\ UNCHANGED <<other, html, pc, events, workspace, asset_urls, css_links, css_i,
                 css_texts, url_list, sem, batch_i, emit_k, index_html,
                 info_json, manifest, archive>>

\* 205-218: the response arrives and its content is written to the file.  The
\* generator yields inside "async with sem" and consume returns at that
\* first item, so the generator stays parked at its yield, permit held:
\* nothing resumes or closes it while url_list/tasks refer to it.
FetchOk(j) ==
  /\ pc = "gather"
  /\ j \in 1..N
  /\ task[j] = "fetching"
  /\ bytes_downloaded' = bytes_downloaded + ContentLen(url_list[j])
  /\ downloaded_files' = downloaded_files \cup {url_list[j]}
  /\ result' = [result EXCEPT ![j] = Asset(url_list[j], ContentLen(url_list[j]))]
  /\ task' = [task EXCEPT ![j] = "yielded"]
  /\ UNCHANGED <<other, html, pc, events, workspace, asset_urls, css_links, css_i, css_texts,
                 url_list, sem, batch_i, emit_k, index_html, info_json,
                 manifest, archive>>

\* 219-221: client.get, raise_for_status, mkdir or open raises, before any
\* byte is counted or any entry appended.
FetchFail(j) ==
  /\ pc = "gather"
  /\ j \in 1..N
  /\ task[j] = "fetching"
  /\ result' = [result EXCEPT ![j] = AssetError(url_list[j])]
  /\ task' = [task EXCEPT ![j] = "yielded"]
  /\ UNCHANGED <<other, html, pc, events, workspace, asset_urls, css_links, css_i, css_texts,
                 url_list, sem, batch_i, emit_k, bytes_downloaded,
                 downloaded_files, index_html, info_json, manifest, archive>>

\* Variant: the results are emitted as soon as one consume has returned.
GatherDone_first_completed ==
  /\ pc = "gather"
  /\ \E j \in Batch : task[j] = "yielded"
  /\ Emit(result[BatchFirst])
  /\ emit_k' = BatchFirst
  /\ pc' = "result"
  /\ UNCHANGED <<other, html, workspace, asset_urls, css_links, css_i, css_texts, url_list,
                 task, result, sem, batch_i, bytes_downloaded,
                 downloaded_files, index_html, info_json, manifest, archive>>

\* 241-246: gather returns once every consume of the batch has returned; the
\* first result is yielded.
GatherDone ==
  /\ pc = "gather"
  /\ \A j \in Batch : task[j] = "yielded"
  /\ Emit(result[BatchFirst])
  /\ emit_k' = BatchFirst
  /\ pc' = "result"
  /\ UNCHANGED <<other, html, workspace, asset_urls, css_links, css_i, css_texts, url_list,
                 task, result, sem, batch_i, bytes_downloaded,
                 downloaded_files, index_html, info_json, manifest, archive>>

\* 242-246: the next result of the batch, in list order.
NextResult ==
  /\ pc = "result"
  /\ emit_k < BatchLast
  /\ Emit(result[emit_k + 1])
  /\ emit_k' = emit_k + 1
  /\ UNCHANGED <<other, html, pc, workspace, asset_urls, css_links, css_i, css_texts, url_list,
                 task, result, sem, batch_i, bytes_downloaded,
                 downloaded_files, index_html, info_json, manifest, archive>>

BatchEmitted ==
  \/ pc = "result" /\ emit_k = BatchLast
  \/ pc = "progress"

\* Variant: the event carries the number of files written, not the bytes.
ProgressTick_file_count ==
  /\ pc = "result"
  /\ emit_k = BatchLast
  /\ Emit(Progress(Cardinality(downloaded_files)))
  /\ pc' = "progress"
  /\ UNCHANGED <<other, html, workspace, asset_urls, css_links, css_i, css_texts, url_list,
                 task, result, sem, batch_i, emit_k, bytes_downloaded,
                 downloaded_files, index_html, info_json, manifest, archive>>

\* 248-254: at least 0.5 s have passed since last_update.
ProgressTick ==
  /\ pc = "result"
  /\ emit_k = BatchLast
  /\ Emit(Progress(bytes_downloaded))
  /\ pc' = "progress"
  /\ UNCHANGED <<other, html, workspace, asset_urls, css_links, css_i, css_texts, url_list,
                 task, result, sem, batch_i, emit_k, bytes_downloaded,
                 downloaded_files, index_html, info_json, manifest, archive>>

\* 234-241: the loop goes on to the next slice and awaits gather on it.
NextBatch ==
  /\ BatchEmitted
  /\ batch_i + CONCURRENT_DOWNLOADS < N
  /\ batch_i' = batch_i + CONCURRENT_DOWNLOADS
  /\ pc' = "gather"
  /\ UNCHANGED <<other, html, events, workspace, asset_urls, css_links, css_i, css_texts,
                 url_list, task, result, sem, emit_k, bytes_downloaded,
                 downloaded_files, index_html, info_json, manifest, archive>>

\* The loop is over, run_tasks_and_emit ends, 265 yields.  (Nothing in
\* run_tasks_and_emit raises an Exception: gather has return_exceptions, so
\* the handler at 259-260 has no step of its own.)
DownloadsFinished ==
  /\ BatchEmitted
  /\ batch_i + CONCURRENT_DOWNLOADS >= N
  /\ Emit(Status("rewriting_html"))
  /\ pc' = "rewriting_html"
  /\ UNCHANGED <<other, html, workspace, asset_urls, css_links, css_i, css_texts, url_list,
                 task, result, sem, batch_i, emit_k, bytes_downloaded,
                 downloaded_files, index_html, info_json, manifest, archive>>

\* ------------------------------------------------------- rewriter (263-312)
\* read_text, BeautifulSoup, the rewrite_attr passes and write_text succeed.
RewriteOk ==
  /\ pc = "rewriting_html"
  /\ index_html' = "rewritten"
  /\ Emit(Status("html_rewritten"))
  /\ pc' = "rewrite_end"
  /\ UNCHANGED <<other, html, workspace, asset_urls, css_links, css_i, css_texts, url_list,
                 task, result, sem, batch_i, emit_k, bytes_downloaded,
                 downloaded_files, info_json, manifest, archive>>

\* Variant: a failed rewrite ends the run.
RewriteFail_returns ==
  /\ pc = "rewriting_html"
  /\ \E st \in {index_html, "partial"} : index_html' = st
  /\ Emit(Error("rewrite_failed"))
  /\ pc' = "fatal"
  /\ UNCHANGED <<other, html, workspace, asset_urls, css_links, css_i, css_texts, url_list,
                 task, result, sem, batch_i, emit_k, bytes_downloaded,
                 downloaded_files, info_json, manifest, archive>>

\* Something in 266-309 raises: before the write (index.html untouched) or
\* inside write_text (index.html truncated).
RewriteFail ==
  /\ pc = "rewriting_html"
  /\ \E st \in {index_html, "partial"} : index_html' = st
  /\ Emit(Error("rewrite_failed"))
  /\ pc' = "rewrite_end"
  /\ UNCHANGED <<other, html, workspace, asset_urls, css_links, css_i, css_texts, url_list,
                 task, result, sem, batch_i, emit_k, bytes_downloaded,
                 downloaded_files, info_json, manifest, archive>>

\* ------------------------------------------------------- manifest (314-327)
CreateInfoJson ==
  /\ pc = "rewrite_end"
  /\ Emit(Status("creating_info_json"))
  /\ pc' = "creating_info_json"
  /\ UNCHANGED <<other, html, workspace, asset_urls, css_links, css_i, css_texts, url_list,
                 task, result, sem, batch_i, emit_k, bytes_downloaded,
                 downloaded_files, index_html, info_json, manifest, archive>>

\* The info dict of 317-323 (the fields that are computed from the run).
Info ==
  [total_files_downloaded |-> Cardinality(downloaded_files) + 1,
   downloaded_bytes |-> bytes_downloaded]

ManifestOk ==
  /\ pc = "creating_info_json"
  /\ manifest' = Info
  /\ info_json' = "written"
  /\ Emit(Status("info_json_created"))
  /\ pc' = "info_end"
  /\ UNCHANGED <<other, html, workspace, asset_urls, css_links, css_i, css_texts, url_list,
                 task, result, sem, batch_i, emit_k, bytes_downloaded,
                 downloaded_files, index_html, archive>>

\* write_json raises: at mkdir/open (no file) or in json.dump (a truncated
\* file).
ManifestFail ==
  /\ pc = "creating_info_json"
  /\ \E st \in {"absent", "partial"} : info_json' = st
  /\ Emit(Error("info_json_failed"))
  /\ pc' = "info_end"
  /\ UNCHANGED <<other, html, workspace, asset_urls, css_links, css_i, css_texts, url_list,
                 task, result, sem, batch_i, emit_k, bytes_downloaded,
                 downloaded_files, index_html, manifest, archive>>

\* ------------------------------------------------------- packager (329-351)
CreateZip ==
  /\ pc = "info_end"
  /\ Emit(Status("creating_zip"))
  /\ pc' = "creating_zip"
  /\ UNCHANGED <<other, html, workspace, asset_urls, css_links, css_i, css_texts, url_list,
                 task, result, sem, batch_i, emit_k, bytes_downloaded,
                 downloaded_files, index_html, info_json, manifest, archive>>

\* Variant: only the host subdirectories are walked, the files at the top of
\* root are left out.
ZipOk_subdirs_only ==
  /\ pc = "creating_zip"
  /\ archive' = [state |-> "complete",
                 entries |-> {ArcName(LocalPath(u)) :
                                u \in {v \in downloaded_files : InsideRoot(LocalPath(v))}}]
  /\ Emit(Status("zip_created"))
  /\ pc' = "zip_created"
  /\ UNCHANGED <<other, html, workspace, asset_urls, css_links, css_i, css_texts, url_list,
                 task, result, sem, batch_i, emit_k, bytes_downloaded,
                 downloaded_files, index_html, info_json, manifest>>

\* os.walk(root): every file under root, arcname relative to root.
ZipOk ==
  /\ pc = "creating_zip"
  /\ archive' = [state |-> "complete", entries |-> WorkspaceFiles]
  /\ Emit(Status("zip_created"))
  /\ pc' = "zip_created"
  /\ UNCHANGED <<other, html, workspace, asset_urls, css_links, css_i, css_texts, url_list,
                 task, result, sem, batch_i, emit_k, bytes_downloaded,
                 downloaded_files, index_html, info_json, manifest>>

\* Variant: the return at 341 is missing.
ZipFail_no_return ==
  /\ pc = "creating_zip"
  /\ \E st \in {"none", "partial"} : archive' = [state |-> st, entries |-> {}]
  /\ Emit(Error("zip_failed"))
  /\ pc' = "zip_created"
  /\ UNCHANGED <<other, html, workspace, asset_urls, css_links, css_i, css_texts, url_list,
                 task, result, sem, batch_i, emit_k, bytes_downloaded,
                 downloaded_files, index_html, info_json, manifest>>

\* ZipFile(...) or zf.write raises: no file, or an unfinished one.
ZipFail ==
  /\ pc = "creating_zip"
  /\ \E st \in {"none", "partial"} : archive' = [state |-> st, entries |-> {}]
  /\ Emit(Error("zip_failed"))
  /\ pc' = "fatal"
  /\ UNCHANGED <<other, html, workspace, asset_urls, css_links, css_i, css_texts, url_list,
                 task, result, sem, batch_i, emit_k, bytes_downloaded,
                 downloaded_files, index_html, info_json, manifest>>

EmitDone ==
  /\ pc = "zip_created"
  /\ Emit(Done)
  /\ pc' = "done"
  /\ UNCHANGED <<other, html, workspace, asset_urls, css_links, css_i, css_texts, url_list,
                 task, result, sem, batch_i, emit_k, bytes_downloaded,
                 downloaded_files, index_html, info_json, manifest, archive>>

\* The return statements at 153, 341 and 351: the generator is exhausted.
Return ==
  /\ pc \in {"fatal", "done"}
  /\ pc' = "end"
  /\ UNCHANGED <<other, html, events, workspace, asset_urls, css_links, css_i, css_texts,
                 url_list, task, result, sem, batch_i, emit_k,
                 bytes_downloaded, downloaded_files, index_html, info_json,
                 manifest, archive>>

\* --------------------------------------------------------- specifications
Next ==
  \/ Start
  \/ StartFail
  \/ RootFetchOk
  \/ RootFetchFail
  \/ Discover
  \/ CssFetchOk
  \/ CssFetchFail
  \/ BeginDownloads
  \/ NoDownloads
  \/ IndexWriteFail
  \/ \E j \in 1..MaxAssets : TaskStart(j)
  \/ \E j \in 1..MaxAssets : FetchOk(j)
  \/ \E j \in 1..MaxAssets : FetchFail(j)
  \/ GatherDone
  \/ NextResult
  \/ ProgressTick
  \/ NextBatch
  \/ DownloadsFinished
  \/ RewriteOk
  \/ RewriteFail
  \/ CreateInfoJson
  \/ ManifestOk
  \/ ManifestFail
  \/ CreateZip
  \/ ZipOk
  \/ ZipFail
  \/ EmitDone
  \/ Return

Spec == Init /\ [][Next]_vars

\* Every request and file operation completes and the consumer keeps
\* pulling: whenever the run can take a step, it takes one.
FairSpec == Spec /\ WF_vars(Next)

\* ------------------------------------------- overlapping runs (52-58, 136-140)
\* The clock in ticks of half a second; strftime("%Y%m%d%H%M%S") keeps whole
\* seconds.
TicksPerSecond == 2

strftime(t) == t \div TicksPerSecond

Tick ==
  /\ ws.clock < MaxClock
  /\ ws' = [ws EXCEPT !.clock = @ + 1]
  /\ UNCHANGED <<probe, pipeline>>

\* make_workspace at the start of run r: root is named by the second; a
\* directory of that name already there is removed with all its files.
make_workspace(r) ==
  /\ ws.run[r].st = "idle"
  /\ LET ts == strftime(ws.clock)
     IN ws' = [ws EXCEPT
                 !.run[r] = [st |-> "writing", root |-> ts, n |-> 0],
                 !.files = {f \in @ : f.root # ts},
                 !.removed = @ \cup {q \in Runs : /\ ws.run[q].st = "writing"
                                                  /\ ws.run[q].root = ts}]
  /\ UNCHANGED <<probe, pipeline>>

\* Run r writes one more file under its root (191, 211, 309, 324).
WriteFile(r) ==
  /\ ws.run[r].st = "writing"
  /\ ws.run[r].n < MaxWrites
  /\ ws' = [ws EXCEPT
              !.run[r].n = @ + 1,
              !.files = @ \cup {[root |-> ws.run[r].root, by |-> r, n |-> ws.run[r].n + 1]}]
  /\ UNCHANGED <<probe, pipeline>>

\* Run r returns; its directory stays.
Finish(r) ==
  /\ ws.run[r].st = "writing"
  /\ ws' = [ws EXCEPT !.run[r].st = "finished"]
  /\ UNCHANGED <<probe, pipeline>>

\* zipped_fullpath of run r (139-140): TMP_ROOT / stark_<ts>.zip
ZipPath(r) == <<"stark", ws.run[r].root, "zip">>

WsNext ==
  \/ Tick
  \/ \E r \in Runs : make_workspace(r)
  \/ \E r \in Runs : WriteFile(r)
  \/ \E r \in Runs : Finish(r)

WsSpec == Init /\ [][WsNext]_vars

\* --------------------------------------------- the mapping on its own (34-50)
Https == <<"h", "t", "t", "p", "s">>

\* Query-less URLs differing in scheme, host, port, path, trailing slash and
\* fragment.
ProbeUrls ==
  [scheme : {Http, Https},
   netloc : {<<"h">>, <<"g">>, <<"h", ":", "8">>},
   path : {<<>>, <<"/">>, <<"/", "a">>, <<"/", "a", "/">>,
           <<"/", "a", "/", "index.html">>},
   query : {<<>>},
   fragment : {<<>>, <<"f">>}]

MapInit ==
  /\ probe \in {[f |-> "input", a |-> x, b |-> y, pa |-> <<>>, pb |-> <<>>, files |-> {}] :
                  x \in ProbeUrls, y \in ProbeUrls}
  /\ ws = NoWs
  /\ PipelineInit

\* local_rel = safe_filename_from_url(url) for both URLs (208).
MapBoth ==
  /\ probe.f = "input"
  /\ probe' = [probe EXCEPT !.f = "mapped",
                            !.pa = safe_filename_from_url(probe.a),
                            !.pb = safe_filename_from_url(probe.b)]
  /\ UNCHANGED <<ws, pipeline>>

\* Both contents are written, one after the other (209-212): a file of the
\* same path is overwritten.
SaveBoth ==
  /\ probe.f = "mapped"
  /\ probe' = [probe EXCEPT !.f = "saved", !.files = {probe.pa, probe.pb}]
  /\ UNCHANGED <<ws, pipeline>>

MapNext == MapBoth \/ SaveBoth

MapSpec == MapInit /\ [][MapNext]_vars

\* ------------------------------------------------------ reading the stream
Idx == 1..Len(events)

Kinds(K) == {i \in Idx : events[i].k \in K}

Count(K) == Cardinality(Kinds(K))

Has(e) == \E i \in Idx : events[i] = e

AssetKinds == {"asset", "asset_error"}

\* Events about URL u among the asset / asset_error events.
OutcomesOf(u) == {i \in Kinds(AssetKinds) : events[i].u = u}

RECURSIVE SumSizes(_)
SumSizes(q) ==
  IF q = <<>> THEN 0
  ELSE (IF Head(q).k = "asset" THEN Head(q).n ELSE 0) + SumSizes(Tail(q))

MetaEmitted == Count({"meta"}) > 0

\* The discovered set is final once meta is out: N = |asset_urls|.
AllAssetsReported ==
  /\ Has(Meta(Cardinality(asset_urls) + 1))
  /\ Count(AssetKinds) = Cardinality(asset_urls)
  /\ \A u \in asset_urls : Cardinality(OutcomesOf(u)) = 1

Fatal(e) == e \in {Error("failed_fetch_html"), Error("zip_failed")}

Terminal(e) == e = Done \/ Fatal(e)

\* ------------------------------------------------------------------ claims

\* gather waits on consume tasks none of which can move: some are parked on
\* the semaphore, the others have returned, and no request is pending.
GatherBlocked ==
  /\ pc = "gather"
  /\ \A j \in Batch : task[j] \in {"waiting", "yielded"}
  /\ \E j \in Batch : task[j] = "waiting"

\* The run has come to rest: the generator is exhausted, or has raised, or no
\* request is pending and no code can run.  As no step of the run can be
\* repeated for ever, a run in which every request and file operation
\* completes ends in such a state, and what it eventually does is what holds
\* there.
AtRest == pc \in {"end", "raised"} \/ GatherBlocked

\* C1: if N assets are discovered (N may exceed the ceiling of 8) and every
\* request completes, a run whose root fetch succeeded and whose downloads
\* have begun eventually has emitted exactly N asset/asset_error events, one
\* per discovered URL, and meta carried total_items = N + 1.
C1_AllAssetsEventuallyReported ==
  (url_list # <<>> /\ AtRest) => AllAssetsReported

\* C2: if every request and file operation completes, the run terminates and
\* its last event is done or a fatal error (failed_fetch_html, zip_failed).
C2_TerminatesWithDoneOrFatal ==
  AtRest => (pc = "end" /\ events # <<>> /\ Terminal(events[Len(events)]))

\* C3: at most CONCURRENT_DOWNLOADS = 8 asset fetches are in flight at any
\* time; URLs beyond the ceiling are not started while 8 are in flight.
C3_InFlightAtMostEight ==
  /\ InFlight <= 8
  /\ InFlight = 8 => \A j \in 1..N : task[j] \in {"fetching", "yielded"} => j <= 8

C3_Witness == InFlight = 8 /\ N > 8 /\ task[N] = "created"

\* C4: meta is emitted once and precedes every asset/asset_error event; these
\* precede status rewriting_html; it precedes the manifest status events,
\* which precede the archive status events.
Rank(e) ==
  CASE e.k = "meta" -> 1
    [] e.k \in AssetKinds -> 2
    [] e = Status("rewriting_html") -> 3
    [] e \in {Status("creating_info_json"), Status("info_json_created")} -> 4
    [] e \in {Status("creating_zip"), Status("zip_created")} -> 5
    [] OTHER -> 0

\* Scanning q with m the highest rank met so far: no ranked event follows an
\* event of a higher rank, and nothing of meta's rank follows meta.
RECURSIVE RanksAscend(_, _)
RanksAscend(q, m) ==
  IF q = <<>> THEN TRUE
  ELSE LET r == Rank(Head(q))
       IN IF r = 0 THEN RanksAscend(Tail(q), m)
          ELSE r >= m /\ ~(r = 1 /\ m = 1) /\ RanksAscend(Tail(q), r)

C4_StageOrder ==
  /\ RanksAscend(events, 0)
  /\ (events # <<>> /\ Rank(events[Len(events)]) > 1) => MetaEmitted
  /\ (pc \notin {"start", "fetching_html", "fetched_html", "fetching_css",
                 "raised", "fatal", "end"}) => MetaEmitted
  /\ (pc = "end" /\ Has(Done)) => MetaEmitted

C4_Witness ==
  /\ pc = "done"
  /\ Count({"asset"}) >= 2
  /\ Count({"asset_error"}) >= 1
  /\ Has(Status("info_json_created"))
  /\ Has(Status("zip_created"))

\* C5: once done, or the error of a failed root fetch or of failed packaging,
\* has been emitted, no further event is emitted.
C5_NothingAfterTerminal ==
  [][(\E i \in Idx : Terminal(events[i])) => events' = events]_vars

C5_Witness == pc = "end" /\ Has(Error("zip_failed")) /\ Has(Status("html_rewritten"))

\* C6: a failed root fetch or a failed archive creation aborts the run with a
\* single error event for it and no done event; after a failed root fetch the
\* stream holds exactly one error event, no meta, asset, asset_error or
\* archive event, and there is no archive.
C6_FatalAborts ==
  /\ Has(Error("failed_fetch_html")) =>
       /\ events = <<Status("fetching_html"), Error("failed_fetch_html")>>
       /\ archive = NoArchive
       /\ pc \in {"fatal", "end"}
  /\ Has(Error("zip_failed")) =>
       /\ Cardinality({i \in Idx : events[i] = Error("zip_failed")}) = 1
       /\ events[Len(events)] = Error("zip_failed")
       /\ ~Has(Done)
       /\ pc \in {"fatal", "end"}

C6_Witness == pc = "end" /\ Has(Error("failed_fetch_html")) /\ workspace

\* C7: the failure of one asset fetch produces an asset_error event for that
\* URL and nothing else: with no other stage failing, every other asset is
\* still fetched and reported and the run reaches done with an archive that
\* holds the downloaded files, the rewritten page and the manifest.
FailedAssets == {url_list[j] : j \in {i \in 1..N : result[i].k = "asset_error"}}

C7_AssetFailureIsIsolated ==
  (FailedAssets # {} /\ Count({"error"}) = 0 /\ AtRest) =>
    /\ \A u \in FailedAssets : Has(AssetError(u))
    /\ AllAssetsReported
    /\ Has(Done)
    /\ index_html = "rewritten"
    /\ info_json = "written"
    /\ archive = [state |-> "complete", entries |-> WorkspaceFiles]
    /\ {LocalPath(events[i].u) : i \in Kinds({"asset"})} \subseteq archive.entries

\* C8 (as stated): when the fetch of a linked stylesheet fails during
\* discovery, the failure is reported by an error event.
CssFailed == \E k \in 1..Len(css_links) : k < css_i /\ css_links[k] \notin css_texts

RecoverableFailed == Has(Error("rewrite_failed")) \/ Has(Error("info_json_failed"))

C9_StageFailureIsRecoverable ==
  RecoverableFailed =>
    /\ \A i \in Kinds({"asset"}) : events[i].u \in downloaded_files
    /\ index_html # "absent"
    /\ pc \in {"fatal", "end"} => Has(Status("creating_zip"))
    /\ pc = "end" => (Has(Status("zip_created")) <=> Has(Done))
    /\ AtRest => pc = "end"

C9_Witness ==
  /\ pc = "end"
  /\ Has(Error("rewrite_failed"))
  /\ Has(Error("info_json_failed"))
  /\ Has(Done)
  /\ Count({"asset"}) >= 1

\* C10: whenever the manifest is written, its downloaded_bytes is the sum of
\* the size fields of the asset events of the run and its
\* total_files_downloaded is the number of asset events plus 1.
C10_ManifestTotals ==
  manifest # NoManifest =>
    /\ manifest.downloaded_bytes = SumSizes(events)
    /\ manifest.total_files_downloaded = Count({"asset"}) + 1

C10_Witness ==
  /\ manifest # NoManifest
  /\ Count({"asset"}) >= 2
  /\ Count({"asset_error"}) >= 1
  /\ SumSizes(events) > Count({"asset"})

\* C11: whenever a run emits done, the archive contains, for every asset
\* event of the run, an entry at that asset's LocalPath.
C11_ArchiveHoldsEveryAsset ==
  Has(Done) =>
    \A i \in Kinds({"asset"}) : LocalPath(events[i].u) \in archive.entries

\* C19: every file the download stage writes lies inside the workspace root,
\* also for absolute URLs whose path contains '..' segments.
C19_WrittenInsideWorkspace ==
  \A u \in downloaded_files : InsideRoot(LocalPath(u))

\* C14: every reference the rewriter rewrites gets the LocalPath under which
\* the download stage saved the asset URL the extractor derived from it, and
\* if that asset had an asset event the rewritten reference names a file that
\* exists in the workspace.
C14_RewrittenNamesSavedFile ==
  index_html = "rewritten" =>
    \A u \in 1..html.nHtml :
      /\ rewrite_attr(RefOf(u)) = LocalPath(u)
      /\ Has(Asset(u, ContentLen(u))) => rewrite_attr(RefOf(u)) \in WorkspaceFiles

\* C12: two runs that overlap in time use different workspace directories and
\* different archive paths, and make_workspace of one never removes a
\* directory the other is still writing to.
Overlap(r, q) == r # q /\ ws.run[r].st = "writing" /\ ws.run[q].st = "writing"

C12_WorkspacesNotShared ==
  /\ \A r, q \in Runs :
       Overlap(r, q) => ws.run[r].root # ws.run[q].root /\ ZipPath(r) # ZipPath(q)
  /\ ws.removed = {}

\* C13: safe_filename_from_url maps the same URL to the same path and two
\* different query-less URLs to different paths, so each downloaded URL has
\* its own file.
C13_MappingInjective ==
  /\ probe.f \in {"mapped", "saved"} =>
       /\ probe.a = probe.b => probe.pa = probe.pb
       /\ probe.a # probe.b => probe.pa # probe.pb
  /\ (probe.f = "saved" /\ probe.a # probe.b) => Cardinality(probe.files) = 2

\* C15 (as stated): whenever a run emits done, the archive contains the
\* rewritten page at index.html and the manifest info.json at its root, also
\* in runs that reported rewrite_failed or info_json_failed; the manifest is
\* written before archiving starts.
IndexEntry == <<"index.html">>

InfoEntry == <<"i", "n", "f", "o", ".", "j", "s", "o", "n">>

ManifestStageOver ==
  Has(Status("info_json_created")) \/ Has(Error("info_json_failed"))

C15_ArchiveHoldsRewrittenPageAndManifest ==
  /\ Has(Done) =>
       /\ IndexEntry \in archive.entries /\ index_html = "rewritten"
       /\ InfoEntry \in archive.entries /\ info_json = "written"
  /\ Has(Status("creating_zip")) => ManifestStageOver

\* C15 (amended): whenever a run emits done, the archive has an entry
\* index.html, which is the rewritten page if html_rewritten was emitted, and
\* has the manifest at info.json if info_json_created was emitted; the
\* manifest stage is over, with info_json_created or info_json_failed, before
\* creating_zip is emitted.
C15_ArchiveHoldsPageAndManifestIfWritten ==
  /\ Has(Done) =>
       /\ IndexEntry \in archive.entries
       /\ Has(Status("html_rewritten")) => index_html = "rewritten"
       /\ Has(Status("info_json_created")) =>
            InfoEntry \in archive.entries /\ info_json = "written"
  /\ Has(Status("creating_zip")) => ManifestStageOver

C15_Witness ==
  /\ pc = "end"
  /\ Has(Done)
  /\ Has(Error("rewrite_failed"))
  /\ Has(Error("info_json_failed"))
  /\ InfoEntry \notin archive.entries
  /\ Cardinality(downloaded_files) > 1

\* C16: the root page URL is not a member of the asset set counted by meta
\* (total_items is the size of that set plus one), it is not in the download
\* list, and no asset or asset_error event carries it.
C16_RootIsNotAnAsset ==
  /\ MetaEmitted =>
       /\ RootUrl \notin asset_urls
       /\ Has(Meta(Cardinality(asset_urls) + 1))
  /\ RootUrl \notin Range(url_list)
  /\ \A i \in Kinds(AssetKinds) : events[i].u # RootUrl

C16_Witness ==
  /\ html.rootRef
  /\ html.nCss > 0
  /\ pc = "end"
  /\ Has(Done)
  /\ Count({"asset"}) > 0
  /\ Count({"asset_error"}) > 0

\* C17: every progress event carries in bytes_total the sum of the size
\* fields of all asset events emitted before it in the stream, and
\* bytes_total never decreases from one progress event to the next: the
\* counter the events carry never decreases and the events of one stream
\* carry ascending values.
ProgressCarriesSum ==
  /\ \A i \in Kinds({"progress"}) :
       events[i].n = SumSizes(SubSeq(events, 1, i - 1))
  /\ \A i, j \in Kinds({"progress"}) : i < j => events[i].n <= events[j].n

C17_ProgressIsCumulative ==
  /\ []ProgressCarriesSum
  /\ [][bytes_downloaded' >= bytes_downloaded]_vars

C17_Witness ==
  /\ \E i \in Kinds({"progress"}) : events[i].n > MaxSize
  /\ Count({"asset_error"}) > 0
  /\ Count({"asset"}) > 2

\* C18: a download that acquired a permit releases it once its outcome event
\* is produced: no permit is held once a batch has been emitted, and no
\* fetch is left waiting on the semaphore when the run has come to rest.
C18_PermitsReleased ==
  /\ BatchEmitted => sem = CONCURRENT_DOWNLOADS
  /\ AtRest => \A j \in 1..N : task[j] # "waiting"

\* C20: assets are fetched in consecutive batches of at most 8 in list order;
\* no fetch of a later batch starts before the current batch is emitted
\* whole; the events of a batch are emitted only after every fetch of the
\* batch has completed, and in list order whatever the completion order.
AssetEvents == SelectSeq(events, LAMBDA e : e.k \in AssetKinds)

C20_BatchesInListOrder ==
  /\ batch_i % CONCURRENT_DOWNLOADS = 0
  /\ \A j \in 1..N : j > BatchLast => task[j] = "created"
  /\ \A j \in 1..N : j <= batch_i => task[j] = "yielded"
  /\ pc = "gather" => Len(AssetEvents) = batch_i
  /\ Len(AssetEvents) > batch_i => \A j \in Batch : task[j] = "yielded"
  /\ Len(AssetEvents) <= BatchLast
  /\ \A k \in 1..Len(AssetEvents) : AssetEvents[k] = result[k] /\ AssetEvents[k].u = url_list[k]

C20_Witness ==
  /\ N > CONCURRENT_DOWNLOADS
  /\ batch_i = CONCURRENT_DOWNLOADS
  /\ task[N] = "waiting"
  /\ Len(AssetEvents) = CONCURRENT_DOWNLOADS
  /\ Count({"asset_error"}) > 0

====
